---- MODULE Spec2Model ----
(***************************************************************************)
(* Model of src/app.py, the cricket performance dashboard.                 *)
(*                                                                         *)
(* One run of the script is a sequence of steps: the cleaning of the two   *)
(* loaded tables (lines 67-90), then the three tabs in source order.  The  *)
(* widgets' values are the inputs of the tab that reads them.              *)
(*                                                                         *)
(* Text is a sequence of one-character strings, so that strip, lower,      *)
(* split and the parsing of numbers are computed and not assumed.          *)
(* A pandas float is a record [k, n, d]: k = "num" is the rational n/d,    *)
(* k = "inf" and k = "nan" are the two results of a division by zero,      *)
(* k = "none" is Python's None and k = "dash" the placeholder text.        *)
(***************************************************************************)
EXTENDS Integers, Sequences, FiniteSets

VARIABLES bat, bowl, pc, err,
          player, tourn_choice, selected_players,
          team_query, tourn2, group_by_opponent,
          tab_player, tab_comparison, tab_team

vars == <<bat, bowl, pc, err, player, tourn_choice, selected_players,
          team_query, tourn2, group_by_opponent,
          tab_player, tab_comparison, tab_team>>

----------------------------------------------------------------------------
(* Bounds of the model. *)

MaxRows == 2
MaxOversLen == 3

----------------------------------------------------------------------------
(* Values. *)

\* A numeric cell that to_numeric(errors="coerce") could not parse, or that
\* read_csv found empty.  Every modelled number is >= 0.
NaN == -1

\* A missing text cell.
NA == <<"NaN">>

\* The literal opponent label of norm_opp.
Unknown == <<"(Unknown)">>

SelectPlayer == <<"(Select a player)">>
AllTournaments == "(All)"

NotOut == <<"n", "o", "t", " ", "o", "u", "t">>

Num(n) == [k |-> "num", n |-> n, d |-> 1]
Inf == [k |-> "inf", n |-> 0, d |-> 1]
NaNf == [k |-> "nan", n |-> 0, d |-> 1]
None == [k |-> "none", n |-> 0, d |-> 1]
Dash == [k |-> "dash", n |-> 0, d |-> 1]

\* float64 division n/d of two non-negative numbers: x/0 is inf, 0/0 is nan.
Div(n, d) ==
    IF d # 0 THEN [k |-> "num", n |-> n, d |-> d]
    ELSE IF n = 0 THEN NaNf ELSE Inf

\* Division of two floats (numerators and denominators non-negative).
FDiv(x, y) ==
    IF x.k # "num" \/ y.k # "num" THEN
        (IF x.k = "nan" \/ y.k = "nan" THEN NaNf
         ELSE IF x.k = "inf" /\ y.k = "inf" THEN NaNf
         ELSE IF x.k = "inf" THEN Inf
         ELSE Num(0))
    ELSE Div(x.n * y.d, x.d * y.n)

\* Round half to even of the non-negative rational n/d, as an integer.
RoundHalfEven(n, d) ==
    LET q == n \div d
        r == n % d
    IN  IF 2 * r < d THEN q
        ELSE IF 2 * r > d THEN q + 1
        ELSE IF q % 2 = 0 THEN q ELSE q + 1

Pow10(p) == IF p = 1 THEN 10 ELSE 100

\* Series.round(p): a rounded number is kept as its count of 10^-p units.
Round(x, p) ==
    IF x.k # "num" THEN x
    ELSE [k |-> "num", n |-> RoundHalfEven(x.n * Pow10(p), x.d), d |-> Pow10(p)]

\* f"{x:.2f}" and f"{x:.1f}": the text of a number, kept as its rounded value.
Format(x, p) == Round(x, p)

\* pd.notna
notna(x) == x.k \in {"num", "inf"}

\* x > y on floats; any comparison with nan is False.
Gt(x, y) ==
    CASE x.k = "nan" \/ y.k = "nan" -> FALSE
      [] x.k = "inf" -> y.k # "inf"
      [] y.k = "inf" -> FALSE
      [] OTHER -> x.n * y.d > y.n * x.d

FEq(x, y) ==
    CASE x.k # y.k -> FALSE
      [] x.k = "num" -> x.n * y.d = y.n * x.d
      [] OTHER -> TRUE

----------------------------------------------------------------------------
(* Text. *)

Digits == {"0", "1", "2", "3", "4", "5", "6", "7", "8", "9"}

DigitVal(c) ==
    CASE c = "0" -> 0 [] c = "1" -> 1 [] c = "2" -> 2 [] c = "3" -> 3
      [] c = "4" -> 4 [] c = "5" -> 5 [] c = "6" -> 6 [] c = "7" -> 7
      [] c = "8" -> 8 [] c = "9" -> 9

\* str.lower on the letters the model's texts use.
LowerChar(c) ==
    CASE c = "A" -> "a" [] c = "B" -> "b" [] c = "N" -> "n"
      [] c = "O" -> "o" [] c = "S" -> "s" [] c = "T" -> "t"
      [] c = "X" -> "x" [] OTHER -> c

\* Series.str.lower: a missing value stays missing.
Lower(s) == IF s = NA THEN NA ELSE [i \in 1..Len(s) |-> LowerChar(s[i])]

RECURSIVE LStrip(_)
LStrip(s) == IF s # <<>> /\ Head(s) = " " THEN LStrip(Tail(s)) ELSE s

RECURSIVE RStrip(_)
RStrip(s) ==
    IF s # <<>> /\ s[Len(s)] = " " THEN RStrip(SubSeq(s, 1, Len(s) - 1)) ELSE s

\* str.strip
Strip(s) == RStrip(LStrip(s))

\* q in s, a literal substring test (regex=False)
Contains(s, q) ==
    \E i \in 0..(Len(s) - Len(q)) : SubSeq(s, i + 1, i + Len(q)) = q

\* The positions of "." in s.
Dots(s) == {i \in 1..Len(s) : s[i] = "."}

Min(S) == CHOOSE x \in S : \A y \in S : x <= y

\* str.split(".", n=1): one part when s has no ".", else two.
Split1(s) ==
    IF Dots(s) = {} THEN <<s>>
    ELSE LET i == Min(Dots(s))
         IN  <<SubSeq(s, 1, i - 1), SubSeq(s, i + 1, Len(s))>>

RECURSIVE DecVal(_)
DecVal(s) ==
    IF s = <<>> THEN 0
    ELSE 10 * DecVal(SubSeq(s, 1, Len(s) - 1)) + DigitVal(s[Len(s)])

RECURSIVE Pow(_, _)
Pow(b, e) == IF e = 0 THEN 1 ELSE b * Pow(b, e - 1)

AllDigits(s) == \A i \in 1..Len(s) : s[i] \in Digits

\* pd.to_numeric(text, errors="coerce") on unsigned decimal text: digits with
\* at most one ".", at least one digit; anything else, and a missing value,
\* is nan.
to_numeric(s) ==
    IF s = NA THEN NaNf
    ELSE LET p == Split1(s)
             ip == p[1]
             fp == IF Len(p) = 2 THEN p[2] ELSE <<>>
         IN  IF AllDigits(ip) /\ AllDigits(fp) /\ Len(ip) + Len(fp) > 0
             THEN [k |-> "num",
                   n |-> DecVal(ip) * Pow(10, Len(fp)) + DecVal(fp),
                   d |-> Pow(10, Len(fp))]
             ELSE NaNf

\* to_float of a cell of a column of whole numbers: the number, or NaN.
to_float(s) ==
    LET x == to_numeric(s)
    IN  IF x.k = "num" THEN x.n \div x.d ELSE NaN

----------------------------------------------------------------------------
(* Normalization, lines 29-56. *)

Max(S) == CHOOSE x \in S : \A y \in S : x >= y

Column(df, name) == [i \in 1..Len(df) |-> df[i][name]]

fillna(s, v) == IF s = NA THEN v ELSE s

\* fillna(0) of a float
fillna0(x) == IF x.k = "nan" THEN Num(0) ELSE x

\* The frame that split(expand=True) returns has as many columns as the
\* longest list of parts; a shorter row is padded with missing values.
\* Asking for a column the frame does not have raises KeyError.  The result
\* is [raised, balls]: the exception raised or "none", and the balls per row.
overs_to_balls(overs_series) ==
    LET rows == 1..Len(overs_series)
        x == [i \in rows |-> Strip(overs_series[i])]
        parts == [i \in rows |-> Split1(x[i])]
        ncols == IF rows = {} THEN 0 ELSE Max({Len(parts[i]) : i \in rows})
        col(i, j) == IF Len(parts[i]) >= j THEN parts[i][j] ELSE NA
        o(i) == fillna0(to_numeric(col(i, 1)))
        b(i) == fillna0(to_numeric(col(i, 2)))
    IN  IF ncols < 2
        THEN [raised |-> "KeyError: 1", balls |-> <<>>]
        ELSE [raised |-> "none",
              balls |-> [i \in rows |->
                  (o(i).n * 6 * b(i).d + b(i).n * o(i).d) \div (o(i).d * b(i).d)]]

\* norm_opp: both tables have the opponent column.
norm_opp(df) ==
    [i \in 1..Len(df) |->
        LET t == Strip(fillna(df[i].opponent, <<>>))
        IN  [df[i] EXCEPT !.opponent = IF t = <<>> THEN Unknown ELSE t]]

\* TOURNAMENT_LABELS.get(k, k)
tournament_label(k) ==
    CASE k = "zootermt20cb3" -> "Zooter Pink Ball"
      [] k = "zooterisdt8" -> "Zooter ISDT"
      [] k = "jfscdpl202526" -> "JFSC Dad's"
      [] k = "clt20s_pdf" -> "JFSC CLT20"
      [] OTHER -> k

\* pick_team_mask(series, team_query), for one value of the series
pick_team_mask(team, query) ==
    LET q == Lower(Strip(query))
    IN  IF q = <<>> THEN TRUE ELSE Contains(Lower(team), q)

\* Lines 67-78: the batting table's numeric columns and player names.
CleanBat(df) ==
    [i \in 1..Len(df) |->
        [df[i] EXCEPT !.runs = to_float(@), !.balls = to_float(@),
                      !.playername = Lower(@)]]

\* Lines 80-82: the bowling table's numeric columns.
CleanBowlNumeric(df) ==
    [i \in 1..Len(df) |->
        [df[i] EXCEPT !.runsconceded = to_float(@), !.wickets = to_float(@)]]

\* Lines 83-87: balls_bowled and the bowler names.
CleanBowlDerived(df, balls) ==
    [i \in 1..Len(df) |->
        [df[i] EXCEPT !.balls_bowled = balls[i], !.bowlername = Lower(@)]]

\* Lines 67-90.  An exception of overs_to_balls ends the run at line 83.
Clean ==
    /\ pc = "clean"
    /\ LET r == overs_to_balls(Column(bowl, "overs"))
       IN  IF r.raised # "none"
           THEN /\ bat' = CleanBat(bat)
                /\ bowl' = CleanBowlNumeric(bowl)
                /\ pc' = "raised"
                /\ err' = r.raised
           ELSE /\ bat' = norm_opp(CleanBat(bat))
                /\ bowl' = norm_opp(CleanBowlDerived(CleanBowlNumeric(bowl), r.balls))
                /\ pc' = "tab_player"
                /\ err' = err
    /\ UNCHANGED <<player, tourn_choice, selected_players, team_query, tourn2,
                   group_by_opponent, tab_player, tab_comparison, tab_team>>

----------------------------------------------------------------------------
(* Aggregation helpers. *)

RECURSIVE SumSeq(_)
\* Series.sum(skipna=True), and groupby "sum": a missing value adds nothing.
SumSeq(s) ==
    IF s = <<>> THEN 0
    ELSE (IF Head(s) = NaN THEN 0 ELSE Head(s)) + SumSeq(Tail(s))

\* groupby "count": the values that are not missing.
CountSeq(s) == Cardinality({i \in 1..Len(s) : s[i] # NaN})

\* (howout.fillna("").str.lower() != "not out").sum(), lines 143, 242-243, 313
dismissals(df) ==
    Cardinality({i \in 1..Len(df) :
        Lower(fillna(df[i].howout, <<>>)) # NotOut})

all_players ==
    {bat[i].playername : i \in 1..Len(bat)}
        \cup {bowl[i].bowlername : i \in 1..Len(bowl)}

TournamentKeys(df) == {df[i].tournamentkey : i \in 1..Len(df)}

----------------------------------------------------------------------------
(* Tab 1: player performance, lines 98-202. *)

OfPlayer(df, name, p) == LET T(r) == r[name] = p IN SelectSeq(df, T)

OfTournament(df, t) == LET T(r) == r.tournamentkey = t IN SelectSeq(df, T)

tourn_options(p) ==
    IF p = SelectPlayer
    THEN TournamentKeys(bat) \cup TournamentKeys(bowl)
    ELSE TournamentKeys(OfPlayer(bat, "playername", p))
             \cup TournamentKeys(OfPlayer(bowl, "bowlername", p))

\* display_to_key[tourn_choice]
display_to_key(p, c) == CHOOSE t \in tourn_options(p) : tournament_label(t) = c

\* Lines 123-130
bat_f(p, c) ==
    LET f == OfPlayer(bat, "playername", p)
    IN  IF c # AllTournaments THEN OfTournament(f, display_to_key(p, c)) ELSE f

bowl_f(p, c) ==
    LET f == OfPlayer(bowl, "bowlername", p)
    IN  IF c # AllTournaments THEN OfTournament(f, display_to_key(p, c)) ELSE f

NoSummary ==
    [shown |-> FALSE, inns |-> 0, runs |-> 0, balls |-> 0, dismissals |-> 0,
     wkts |-> 0, sr |-> None, avg |-> None, econ |-> None,
     avg_text |-> Dash, sr_text |-> Dash, econ_text |-> Dash]

\* The average as a batter never dismissed would have it: the run total.
BattingAverageOfNotOut(runs, outs) ==
    IF outs # 0 THEN Div(runs, outs) ELSE Num(runs)

\* avg = (runs / dismissals) if dismissals else None, line 148
BattingAverage(runs, outs) == IF outs # 0 THEN Div(runs, outs) ELSE None

\* Lines 140-155
BattingSummary(f) ==
    IF f = <<>> THEN NoSummary
    ELSE LET outs == dismissals(f)
             runs == SumSeq(Column(f, "runs"))
             balls == SumSeq(Column(f, "balls"))
             sr == IF balls # 0 THEN Div(runs * 100, balls) ELSE Num(0)
             avg == BattingAverage(runs, outs)
         IN  [shown |-> TRUE, inns |-> Len(f), runs |-> runs, balls |-> balls,
              dismissals |-> outs, wkts |-> 0, sr |-> sr, avg |-> avg,
              econ |-> None,
              avg_text |-> IF avg # None THEN Format(avg, 2) ELSE Dash,
              sr_text |-> IF balls # 0 THEN Format(sr, 2) ELSE Dash,
              econ_text |-> Dash]

\* Lines 175-193
BowlingSummary(f) ==
    IF f = <<>> THEN NoSummary
    ELSE LET balls == SumSeq(Column(f, "balls_bowled"))
             runs_c == SumSeq(Column(f, "runsconceded"))
             wkts == SumSeq(Column(f, "wickets"))
             \* overs_equiv = balls / 6, so runs_c / overs_equiv = runs_c * 6 / balls
             econ == IF balls # 0 THEN Div(runs_c * 6, balls) ELSE Num(0)
             avg_b == IF wkts # 0 THEN Div(runs_c, wkts) ELSE None
             sr_b == IF wkts # 0 THEN Div(balls, wkts) ELSE None
             both == avg_b # None /\ sr_b # None
         IN  [shown |-> TRUE, inns |-> Len(f), runs |-> runs_c, balls |-> balls,
              dismissals |-> 0, wkts |-> wkts, sr |-> sr_b, avg |-> avg_b,
              econ |-> econ,
              avg_text |-> IF both THEN Format(avg_b, 2) ELSE Dash,
              sr_text |-> IF both THEN Format(sr_b, 1) ELSE Dash,
              econ_text |-> IF balls # 0 THEN Format(econ, 2) ELSE Dash]

\* st.stop() at line 120 ends the run when no player is selected.
TabPlayer ==
    /\ pc = "tab_player"
    /\ \E p \in {SelectPlayer} \cup all_players :
       \E c \in {AllTournaments} \cup {tournament_label(t) : t \in tourn_options(p)} :
          /\ player' = p
          /\ tourn_choice' = c
          /\ IF p = SelectPlayer
             THEN /\ pc' = "stopped"
                  /\ tab_player' = tab_player
             ELSE /\ pc' = "tab_comparison"
                  /\ tab_player' = [bat |-> BattingSummary(bat_f(p, c)),
                                    bowl |-> BowlingSummary(bowl_f(p, c))]
    /\ UNCHANGED <<bat, bowl, err, selected_players, team_query, tourn2,
                   group_by_opponent, tab_comparison, tab_team>>

----------------------------------------------------------------------------
(* Tab 2: player-wise overall comparison, lines 207-276. *)

Rows(df) == {df[i] : i \in 1..Len(df)}

isin(df, name, S) == LET T(r) == r[name] \in S IN SelectSeq(df, T)

Perms(S) ==
    {f \in [1..Cardinality(S) -> S] : \A i, j \in DOMAIN f : i # j => f[i] # f[j]}

\* The same call with ascending=True.
sort_values_asc(S, col) ==
    {f \in Perms(S) : \A i, j \in DOMAIN f : i < j => f[i][col] <= f[j][col]}

\* DataFrame.sort_values(col, ascending=False) of the rows S.  The default
\* sort is quicksort, which is not stable: rows with equal keys come out in
\* an order the call does not fix, so every such order is a result.
sort_values_desc(S, col) ==
    {f \in Perms(S) : \A i, j \in DOMAIN f : i < j => f[i][col] >= f[j][col]}

\* Lines 245-248: runs / dismissals if dismissals > 0 else None.  In a
\* column that holds a number too, the None is nan.
ComparisonAverage(runs, outs, numeric) ==
    IF outs > 0 THEN Div(runs, outs) ELSE IF numeric THEN NaNf ELSE None

\* Lines 232-250: one row per player of bat_comp.
bat_summary(bat_comp) ==
    {LET g == OfPlayer(bat_comp, "playername", p)
         runs == SumSeq(Column(g, "runs"))
         balls == SumSeq(Column(g, "balls"))
     IN  [playername |-> p,
          inns |-> CountSeq(Column(g, "runs")),
          runs |-> runs,
          balls |-> balls,
          dismissals |-> dismissals(g),
          avg |-> Round(ComparisonAverage(runs, dismissals(g),
                                          dismissals(bat_comp) > 0), 2),
          sr |-> Round(Div(runs * 100, balls), 2)]
     : p \in {r.playername : r \in Rows(bat_comp)}}

\* Lines 262-272: one row per bowler of bowl_comp.
bowl_summary(bowl_comp) ==
    {LET g == OfPlayer(bowl_comp, "bowlername", p)
         runs == SumSeq(Column(g, "runsconceded"))
         balls == SumSeq(Column(g, "balls_bowled"))
         wickets == SumSeq(Column(g, "wickets"))
     IN  [bowlername |-> p,
          spells |-> CountSeq(Column(g, "runsconceded")),
          runs |-> runs,
          balls |-> balls,
          wickets |-> wickets,
          overs |-> Round(Div(balls, 6), 1),
          econ |-> Round(Div(runs * 6, balls), 2),
          avg |-> Round(Div(runs, wickets), 2),
          sr |-> Round(Div(balls, wickets), 1)]
     : p \in {r.bowlername : r \in Rows(bowl_comp)}}

\* When no selected batter was ever dismissed, the lambda of lines 245-248
\* returns None for every row and the column is of dtype object; round(2) on
\* it raises TypeError or leaves it alone, depending on the pandas release.
AvgColumnIsObject(bat_comp) ==
    /\ bat_comp # <<>>
    /\ \A r \in bat_summary(bat_comp) : r.dismissals = 0

TabComparison ==
    /\ pc = "tab_comparison"
    /\ \E sel \in SUBSET all_players :
       LET bat_comp == isin(bat, "playername", sel)
           bowl_comp == isin(bowl, "bowlername", sel)
       IN  /\ selected_players' = sel
           /\ \E raises \in IF sel # {} /\ AvgColumnIsObject(bat_comp)
                            THEN BOOLEAN ELSE {FALSE} :
              IF raises
              THEN /\ pc' = "raised"
                   /\ err' = "TypeError"
                   /\ tab_comparison' = tab_comparison
              ELSE /\ pc' = "tab_team"
                   /\ err' = err
                   /\ \E bs \in sort_values_desc(bat_summary(bat_comp), "runs") :
                      \E ws \in sort_values_desc(bowl_summary(bowl_comp), "wickets") :
                         tab_comparison' =
                             IF sel = {} THEN [bat |-> <<>>, bowl |-> <<>>]
                             ELSE [bat |-> bs, bowl |-> ws]
    /\ UNCHANGED <<bat, bowl, player, tourn_choice, team_query, tourn2,
                   group_by_opponent, tab_player, tab_team>>

----------------------------------------------------------------------------
(* Tab 3: team trends, lines 281-409. *)

trend_key(by_opponent) == IF by_opponent THEN "opponent" ELSE "matchid"

\* matchid is a column of numbers, opponent a column of text.
IsMissing(key, v) == IF key = "matchid" THEN v = NaN ELSE v = NA

\* Lines 295-303
bat_team(q, ts) ==
    LET T(r) == /\ (ts # {} => r.tournamentkey \in ts)
                /\ pick_team_mask(r.battingteam, q)
    IN  SelectSeq(bat, T)

bowl_team(q, ts) ==
    LET T(r) == /\ (ts # {} => r.tournamentkey \in ts)
                /\ pick_team_mask(r.bowlingteam, q)
    IN  SelectSeq(bowl, T)

\* The groups of groupby(["tournamentkey", key]): dropna=True is the default,
\* so a row whose key is missing belongs to no group.
GroupKeys(df, key) ==
    {<<r.tournamentkey, r[key]>> : r \in {x \in Rows(df) : ~IsMissing(key, x[key])}}

Group(df, key, g) ==
    LET T(r) == r.tournamentkey = g[1] /\ r[key] = g[2] IN SelectSeq(df, T)

\* Lines 310-316
bm(df, key) ==
    {LET g == Group(df, key, gk)
         runs_scored == SumSeq(Column(g, "runs"))
         balls_faced == SumSeq(Column(g, "balls"))
     IN  [key |-> gk,
          runs_scored |-> runs_scored,
          balls_faced |-> balls_faced,
          wickets_lost |-> dismissals(g),
          run_rate |-> Round(Div(runs_scored * 6, balls_faced), 2)]
     : gk \in GroupKeys(df, key)}

\* wm["economy"] = (runs_conceded / overs_bowled).round(2), line 325
economy(runs_conceded, overs_bowled) ==
    Round(FDiv(Num(runs_conceded), overs_bowled), 2)

\* Lines 318-325
wm(df, key) ==
    {LET g == Group(df, key, gk)
         runs_conceded == SumSeq(Column(g, "runsconceded"))
         balls_bowled == SumSeq(Column(g, "balls_bowled"))
         overs_bowled == Round(Div(balls_bowled, 6), 1)
     IN  [key |-> gk,
          runs_conceded |-> runs_conceded,
          balls_bowled |-> balls_bowled,
          wickets_taken |-> SumSeq(Column(g, "wickets")),
          overs_bowled |-> overs_bowled,
          economy |-> economy(runs_conceded, overs_bowled)]
     : gk \in GroupKeys(df, key)}

\* Lines 342-346
result(run_rate, opposition_run_rate) ==
    IF notna(run_rate) /\ notna(opposition_run_rate)
       /\ Gt(run_rate, opposition_run_rate)
    THEN "Won" ELSE "Lost"

\* Lines 328-346: the outer merge on the key columns, with the columns added
\* to it.  A side that has no row for a key leaves its columns nan.
mm(b, w) ==
    {LET bs == {r \in b : r.key = gk}
         ws == {r \in w : r.key = gk}
         hasb == bs # {}
         hasw == ws # {}
         br == CHOOSE r \in bs : TRUE
         wr == CHOOSE r \in ws : TRUE
         run_rate == IF hasb THEN br.run_rate ELSE NaNf
         opposition_run_rate ==
             IF hasw THEN Round(Div(wr.runs_conceded * 6, wr.balls_bowled), 2)
             ELSE NaNf
     IN  [key |-> gk,
          tournament |-> tournament_label(gk[1]),
          runs_scored |-> IF hasb THEN Num(br.runs_scored) ELSE NaNf,
          balls_faced |-> IF hasb THEN Num(br.balls_faced) ELSE NaNf,
          wickets_lost |-> IF hasb THEN Num(br.wickets_lost) ELSE NaNf,
          run_rate |-> run_rate,
          runs_conceded |-> IF hasw THEN Num(wr.runs_conceded) ELSE NaNf,
          balls_bowled |-> IF hasw THEN Num(wr.balls_bowled) ELSE NaNf,
          wickets_taken |-> IF hasw THEN Num(wr.wickets_taken) ELSE NaNf,
          economy |-> IF hasw THEN wr.economy ELSE NaNf,
          opposition_run_rate |-> opposition_run_rate,
          result |-> result(run_rate, opposition_run_rate)]
     : gk \in {r.key : r \in b} \cup {r.key : r \in w}}

\* The texts tried in the "Team name contains" box.
TeamQueries == {<<>>, <<" ", "S">>}

NoTrend == [shown |-> FALSE, rows |-> {}, total_games |-> 0, wins |-> 0]

\* The column run_rate exists only when bm is not empty (line 315), the
\* column economy only when wm is not empty (line 323).  The lambda of line
\* 343 reads run_rate, line 405 reads economy: a missing column is a
\* KeyError.  The game table is on the screen by line 362.
TabTeam ==
    /\ pc = "tab_team"
    /\ \E q \in TeamQueries :
       \E ts \in SUBSET (TournamentKeys(bat) \cup TournamentKeys(bowl)) :
       \E by_opponent \in BOOLEAN :
          LET key == trend_key(by_opponent)
              b == bm(bat_team(q, ts), key)
              w == wm(bowl_team(q, ts), key)
              m == mm(b, w)
          IN  /\ team_query' = q
              /\ tourn2' = ts
              /\ group_by_opponent' = by_opponent
              /\ IF m = {}
                 THEN /\ tab_team' = NoTrend
                      /\ pc' = "done"
                      /\ err' = err
                 ELSE IF b = {}
                 THEN /\ tab_team' = NoTrend
                      /\ pc' = "raised"
                      /\ err' = "KeyError: 'run_rate'"
                 ELSE /\ tab_team' =
                           [shown |-> TRUE, rows |-> m,
                            total_games |-> Cardinality(m),
                            wins |-> Cardinality({r \in m : r.result = "Won"})]
                      /\ pc' = IF w = {} THEN "raised" ELSE "done"
                      /\ err' = IF w = {} THEN "KeyError: 'economy'" ELSE err
    /\ UNCHANGED <<bat, bowl, player, tourn_choice, selected_players,
                   tab_player, tab_comparison>>

Next == Clean \/ TabPlayer \/ TabComparison \/ TabTeam

----------------------------------------------------------------------------
(* The loaded tables.  read_csv gives every table at least one row here; a  *)
(* cell is text as the file holds it, matchid a number or NaN.  The tables  *)
(* come in families, each varying the columns one part of the script reads  *)
(* and holding the others fixed.                                            *)

SeqsUpTo(S, n) == UNION {[1..k -> S] : k \in 1..n}

Texts(alphabet, n) == UNION {[1..k -> alphabet] : k \in 0..n}

BatRow(name, mid, team, opp, runs, balls, howout) ==
    [playername |-> name, tournamentkey |-> "zooterisdt8", matchid |-> mid,
     battingteam |-> team, opponent |-> opp, runs |-> runs, balls |-> balls,
     howout |-> howout]

BowlRow(name, tk, mid, team, opp, overs, runs, wickets) ==
    [bowlername |-> name, tournamentkey |-> tk, matchid |-> mid,
     bowlingteam |-> team, opponent |-> opp, overs |-> overs,
     runsconceded |-> runs, wickets |-> wickets, balls_bowled |-> NaN]

OneBat == <<BatRow(<<"a">>, 1, <<"X", "S">>, <<"x">>, <<"1", "0">>, <<"6">>, <<"b">>)>>

OneBowl ==
    <<BowlRow(<<"a">>, "zooterisdt8", 1, <<"X", "S">>, <<"x">>,
              <<"1", ".", "1">>, <<"1", "0">>, <<"1">>)>>

HowOuts == {NotOut, <<"N", "o", "t", " ", "O", "u", "t">>, <<"b">>, NA}

BattingTables ==
    SeqsUpTo({BatRow(name, 1, <<"X", "S">>, <<"x">>, runs, <<"6">>, howout) :
                 name \in {<<"a">>, <<"B">>},
                 runs \in {<<>>, <<"1", "0">>},
                 howout \in HowOuts}, MaxRows)

BowlingTables ==
    SeqsUpTo({BowlRow(name, tk, 1, <<"X", "S">>, <<"x">>, overs, runs, wickets) :
                 name \in {<<"a">>, <<"B">>},
                 tk \in {"zooterisdt8", "t20"},
                 overs \in {<<"0", ".", "0">>, <<"1", ".", "0">>, <<"1", ".", "1">>},
                 runs \in {<<>>, <<"1", "0">>},
                 wickets \in {<<"0">>, <<"1">>}}, MaxRows)

OversTexts ==
    Texts({"1", "4", ".", "b"}, MaxOversLen)
        \cup {<<" ", "4">>, <<"4", ".", "1", " ">>, <<" ", "b", " ">>}

OversTables ==
    SeqsUpTo({BowlRow(<<"a">>, "zooterisdt8", 1, <<"X", "S">>, <<"x">>, overs,
                      <<"1", "0">>, <<"1">>) : overs \in OversTexts}, MaxRows)

TeamBatTables ==
    SeqsUpTo({BatRow(<<"a">>, mid, team, opp, runs, balls, <<"b">>) :
                 mid \in {1, NaN},
                 team \in {<<"X", "S">>, <<"T">>},
                 opp \in {<<"x">>, <<" ">>},
                 runs \in {<<"1", "0">>, <<"2", "0">>},
                 balls \in {<<>>, <<"6">>}}, MaxRows)

TeamBowlTables ==
    {<<BowlRow(<<"a">>, "zooterisdt8", 1, team, opp, overs, <<"1", "0">>, <<"1">>)>> :
        team \in {<<"X", "S">>, <<"T">>},
        opp \in {<<"x">>, NA},
        overs \in {<<"1", ".", "0">>, <<"1", ".", "1">>}}

\* Two players whose totals can tie or differ in the sort key and beyond it.
CompareBatTables ==
    SeqsUpTo({BatRow(name, 1, <<"X", "S">>, <<"x">>, c[1], c[2], <<"b">>) :
                 name \in {<<"a">>, <<"B">>},
                 c \in {<<(<<"x">>), (<<"6">>)>>,
                        <<(<<"1", "0">>), (<<"6">>)>>,
                        <<(<<"1", "0">>), (<<"1", "2">>)>>}}, MaxRows)

CompareBowlTables ==
    SeqsUpTo({BowlRow(name, "zooterisdt8", 1, <<"X", "S">>, <<"x">>, c[1],
                      <<"1", "0">>, c[2]) :
                 name \in {<<"a">>, <<"B">>},
                 c \in {<<(<<"1", ".", "0">>), (<<"0">>)>>,
                        <<(<<"1", ".", "0">>), (<<"1">>)>>,
                        <<(<<"2", ".", "0">>), (<<"1">>)>>}}, MaxRows)

TwoBat ==
    <<BatRow(<<"a">>, 1, <<"X", "S">>, <<"x">>, <<"1", "0">>, <<"6">>, <<"b">>),
      BatRow(<<"b">>, 1, <<"X", "S">>, <<"x">>, <<"x">>, <<"6">>, <<" ">>)>>

TwoBowl ==
    <<BowlRow(<<"a">>, "zooterisdt8", 1, <<"X", "S">>, <<"x">>,
              <<"1", ".", "0">>, <<"1", "0">>, <<"0">>),
      BowlRow(<<"b">>, "zooterisdt8", 1, <<"X", "S">>, <<"x">>,
              <<"1", ".", "0">>, <<"1", "0">>, <<"1">>)>>

Start ==
    /\ pc = "clean"
    /\ err = "none"
    /\ player = SelectPlayer
    /\ tourn_choice = AllTournaments
    /\ selected_players = {}
    /\ team_query = <<>>
    /\ tourn2 = {}
    /\ group_by_opponent = TRUE
    /\ tab_player = [bat |-> NoSummary, bowl |-> NoSummary]
    /\ tab_comparison = [bat |-> <<>>, bowl |-> <<>>]
    /\ tab_team = NoTrend

InitBatting == bat \in BattingTables /\ bowl = OneBowl /\ Start
InitBowling == bat = OneBat /\ bowl \in BowlingTables /\ Start
InitOvers == bat = OneBat /\ bowl \in OversTables /\ Start
InitTeam == bat \in TeamBatTables /\ bowl \in TeamBowlTables /\ Start
InitCompare ==
    /\ \/ bat \in CompareBatTables /\ bowl = TwoBowl
       \/ bat = TwoBat /\ bowl \in CompareBowlTables
    /\ Start

Init == InitBatting \/ InitBowling \/ InitOvers \/ InitTeam \/ InitCompare

Spec == Init /\ [][Next]_vars
SpecBatting == InitBatting /\ [][Next]_vars
SpecBowling == InitBowling /\ [][Next]_vars
SpecOvers == InitOvers /\ [][Next]_vars
SpecTeam == InitTeam /\ [][Next]_vars
SpecCompare == InitCompare /\ [][Next]_vars

----------------------------------------------------------------------------
(* The claims.                                                              *)

RECURSIVE SumField(_, _)
SumField(S, f) ==
    IF S = {} THEN 0
    ELSE LET r == CHOOSE x \in S : TRUE IN r[f] + SumField(S \ {r}, f)

RECURSIVE SumNum(_, _)
\* The same over a column of floats; a nan adds nothing.
SumNum(S, f) ==
    IF S = {} THEN 0
    ELSE LET r == CHOOSE x \in S : TRUE IN r[f].n + SumNum(S \ {r}, f)

Cleaned == pc # "clean"

\* What the specification asks of overs_to_balls, for the texts it names:
\* "N.B" with one digit B <= 5, "N", "" and text with no digit and no point.
\* Unknown for any other text.
IsNatural(s) == s # <<>> /\ AllDigits(s)

ExpectedBalls(s) ==
    LET p == Split1(s)
    IN  IF s = <<>> THEN 0
        ELSE IF IsNatural(s) THEN DecVal(s) * 6
        ELSE IF Len(p) = 2 /\ IsNatural(p[1]) /\ Len(p[2]) = 1
                /\ IsNatural(p[2]) /\ DecVal(p[2]) <= 5
             THEN DecVal(p[1]) * 6 + DecVal(p[2])
        ELSE IF \A i \in 1..Len(s) : s[i] \notin Digits \cup {".", " "} THEN 0
        ELSE NaN

\* C1: once the tables are cleaned, every row's balls_bowled is N*6 + B for
\* overs "N.B" (0 <= B <= 5), N*6 for "N", 0 for "" and 0 for malformed text
\* such as "bad", whatever the other rows of the series hold, a series with
\* no decimal point in it included.
C1_OversToBalls ==
    Cleaned =>
        \A i \in 1..Len(bowl) :
            ExpectedBalls(bowl[i].overs) # NaN
                => bowl[i].balls_bowled = ExpectedBalls(bowl[i].overs)

\* The dismissals of the specification: howout present, not blank and not
\* "not out" in any case.
SpecDismissals(df) ==
    Cardinality({i \in 1..Len(df) :
        /\ df[i].howout # NA
        /\ Strip(df[i].howout) # <<>>
        /\ Lower(df[i].howout) # NotOut})

\* C2: the dismissals of the player summary, of every row of the comparison
\* table and the wickets_lost of every trend row count the rows whose howout
\* is present, not blank and not "not out"; a missing or blank howout is not
\* a dismissal.
C2_Dismissals ==
    /\ tab_player.bat.shown =>
           tab_player.bat.dismissals = SpecDismissals(bat_f(player, tourn_choice))
    /\ \A i \in 1..Len(tab_comparison.bat) :
           tab_comparison.bat[i].dismissals =
               SpecDismissals(OfPlayer(isin(bat, "playername", selected_players),
                                       "playername", tab_comparison.bat[i].playername))
    /\ \A r \in tab_team.rows :
           r.wickets_lost.k = "num" =>
               r.wickets_lost.n =
                   SpecDismissals(Group(bat_team(team_query, tourn2),
                                        trend_key(group_by_opponent), r.key))

TrendRaised == err \in {"KeyError: 'run_rate'", "KeyError: 'economy'"}

TrendKeys ==
    GroupKeys(bat_team(team_query, tourn2), trend_key(group_by_opponent))
        \cup GroupKeys(bowl_team(team_query, tourn2), trend_key(group_by_opponent))

\* C3: the trend computation never raises, and when it has run there is
\* exactly one combined row per (tournament, group) key of either filtered
\* subset, a key of one side only included, the other side's fields being
\* undefined.
C3_TrendOuterJoin ==
    /\ ~TrendRaised
    /\ pc = "done" =>
          /\ {r.key : r \in tab_team.rows} = TrendKeys
          /\ \A r1, r2 \in tab_team.rows : r1.key = r2.key => r1 = r2
          /\ \A r \in tab_team.rows :
                /\ r.key \notin GroupKeys(bat_team(team_query, tourn2),
                                          trend_key(group_by_opponent))
                      => r.runs_scored = NaNf /\ r.run_rate = NaNf
                /\ r.key \notin GroupKeys(bowl_team(team_query, tourn2),
                                          trend_key(group_by_opponent))
                      => r.runs_conceded = NaNf /\ r.opposition_run_rate = NaNf

\* C4: a trend row is "Won" exactly when balls_faced > 0, balls_bowled > 0
\* and runs_scored*6/balls_faced > runs_conceded*6/balls_bowled; it is
\* "Lost" in every other case.
C4_WonIffHigherRate ==
    \A r \in tab_team.rows :
        LET both == /\ r.balls_faced.k = "num" /\ r.balls_faced.n > 0
                    /\ r.balls_bowled.k = "num" /\ r.balls_bowled.n > 0
            higher == r.runs_scored.n * 6 * r.balls_bowled.n
                          > r.runs_conceded.n * 6 * r.balls_faced.n
        IN  /\ r.result \in {"Won", "Lost"}
            /\ r.result = "Won" <=> (both /\ higher)

\* C5: the economy of a trend row with balls_bowled > 0 is
\* runs_conceded*6/balls_bowled to 2 decimal places, and it is undefined
\* when balls_bowled = 0.
C5_TrendEconomy ==
    \A r \in tab_team.rows :
        r.balls_bowled.k = "num" =>
            IF r.balls_bowled.n > 0
            THEN r.economy = Round(Div(r.runs_conceded.n * 6, r.balls_bowled.n), 2)
            ELSE ~notna(r.economy)

\* C6: in the player batting summary the average is undefined, and shown as
\* the placeholder, whenever the dismissals of the filtered rows are 0, runs
\* or no runs; with dismissals > 0 it is total runs / dismissals, shown to 2
\* decimal places.
C6_BattingAverage ==
    tab_player.bat.shown =>
        LET f == bat_f(player, tourn_choice)
            outs == dismissals(f)
            runs == SumSeq(Column(f, "runs"))
            s == tab_player.bat
        IN  /\ s.dismissals = outs
            /\ outs = 0 => s.avg = None /\ s.avg_text = Dash
            /\ outs > 0 =>
                  /\ s.avg.k = "num" /\ s.avg.n * outs = runs * s.avg.d
                  /\ s.avg_text.k = "num" /\ s.avg_text.d = 100
                  /\ 2 * s.avg_text.n * outs <= 200 * runs + outs
                  /\ 2 * s.avg_text.n * outs >= 200 * runs - outs

\* C6, its case: a player with runs and no dismissal, the average a
\* placeholder.
C6_Witness ==
    /\ tab_player.bat.shown
    /\ tab_player.bat.dismissals = 0
    /\ tab_player.bat.runs > 0
    /\ tab_player.bat.avg_text = Dash

Undefined(x) == x.k \in {"nan", "none", "dash"}

\* C7: a bowling rate with a zero denominator is undefined, never a number
\* or infinity: average and strike rate when the wickets are 0, economy when
\* the balls are 0, in the player summary and in every row of the
\* comparison table.
C7_BowlingRatesUndefined ==
    /\ tab_player.bowl.shown =>
          /\ tab_player.bowl.wkts = 0 =>
                /\ Undefined(tab_player.bowl.avg_text)
                /\ Undefined(tab_player.bowl.sr_text)
          /\ tab_player.bowl.balls = 0 => Undefined(tab_player.bowl.econ_text)
    /\ \A i \in 1..Len(tab_comparison.bowl) :
          LET r == tab_comparison.bowl[i]
          IN  /\ r.wickets = 0 => Undefined(r.avg) /\ Undefined(r.sr)
              /\ r.balls = 0 => Undefined(r.econ)

Ge(x, y) == Gt(x, y) \/ FEq(x, y)

\* C8: the batting table is in descending order of runs, equal runs in
\* descending order of strike rate; the bowling table in descending order of
\* wickets, equal wickets in ascending order of economy.
C8_LeaderboardOrder ==
    /\ \A i \in 1..(Len(tab_comparison.bat) - 1) :
          LET x == tab_comparison.bat[i]
              y == tab_comparison.bat[i + 1]
          IN  \/ x.runs > y.runs
              \/ x.runs = y.runs /\ (notna(x.sr) /\ notna(y.sr) => Ge(x.sr, y.sr))
    /\ \A i \in 1..(Len(tab_comparison.bowl) - 1) :
          LET x == tab_comparison.bowl[i]
              y == tab_comparison.bowl[i + 1]
          IN  \/ x.wickets > y.wickets
              \/ x.wickets = y.wickets
                    /\ (notna(x.econ) /\ notna(y.econ) => Ge(y.econ, x.econ))

\* C8 as amended: the batting table holds one row per selected player who
\* has batted, in descending order of runs, and the bowling table one row
\* per selected player who has bowled, in descending order of wickets; rows
\* that tie on that key come in no fixed order.
C8_OrderByRunsAndWickets ==
    pc \in {"tab_team", "done"} /\ selected_players # {} =>
        /\ \A i \in 1..(Len(tab_comparison.bat) - 1) :
              tab_comparison.bat[i].runs >= tab_comparison.bat[i + 1].runs
        /\ \A i \in 1..(Len(tab_comparison.bowl) - 1) :
              tab_comparison.bowl[i].wickets >= tab_comparison.bowl[i + 1].wickets
        /\ {r.playername : r \in Rows(tab_comparison.bat)} =
               {r.playername : r \in Rows(bat)} \cap selected_players
        /\ {r.bowlername : r \in Rows(tab_comparison.bowl)} =
               {r.bowlername : r \in Rows(bowl)} \cap selected_players
        /\ Len(tab_comparison.bat) = Cardinality(Rows(tab_comparison.bat))
        /\ Len(tab_comparison.bowl) = Cardinality(Rows(tab_comparison.bowl))

\* C8, its case: two batters and two bowlers, each pair apart in its key.
C8_Witness ==
    /\ Len(tab_comparison.bat) = 2
    /\ tab_comparison.bat[1].runs > tab_comparison.bat[2].runs
    /\ Len(tab_comparison.bowl) = 2
    /\ tab_comparison.bowl[1].wickets > tab_comparison.bowl[2].wickets

\* C9: the run totals of the groups add up to the run total of the filtered
\* rows they were grouped from: per player in the comparison tables, per
\* (tournament, opponent or match) in the trend table, rows with a missing
\* key or missing runs included.
C9_GroupTotals ==
    /\ pc \in {"tab_team", "done"} /\ selected_players # {} =>
          /\ SumField(Rows(tab_comparison.bat), "runs") =
                 SumSeq(Column(isin(bat, "playername", selected_players), "runs"))
          /\ SumField(Rows(tab_comparison.bowl), "runs") =
                 SumSeq(Column(isin(bowl, "bowlername", selected_players),
                               "runsconceded"))
    /\ tab_team.shown =>
          /\ SumNum(tab_team.rows, "runs_scored") =
                 SumSeq(Column(bat_team(team_query, tourn2), "runs"))
          /\ SumNum(tab_team.rows, "runs_conceded") =
                 SumSeq(Column(bowl_team(team_query, tourn2), "runsconceded"))

\* C10: in the comparison tables a player's inns, and a bowler's spells, is
\* the number of that player's rows, which is the innings count the player
\* summary shows for the player over all tournaments, rows with missing or
\* unparseable runs included.
C10_InningsCount ==
    /\ \A i \in 1..Len(tab_comparison.bat) :
          LET r == tab_comparison.bat[i]
          IN  /\ r.inns = Len(OfPlayer(bat, "playername", r.playername))
              /\ (player = r.playername /\ tourn_choice = AllTournaments)
                     => r.inns = tab_player.bat.inns
    /\ \A i \in 1..Len(tab_comparison.bowl) :
          LET r == tab_comparison.bowl[i]
          IN  /\ r.spells = Len(OfPlayer(bowl, "bowlername", r.bowlername))
              /\ (player = r.bowlername /\ tourn_choice = AllTournaments)
                     => r.spells = tab_player.bowl.inns

====
